---- MODULE Spec2Model ----
(***************************************************************************)
(* Model of semantic_graph/ai_research_agent_integration.py:               *)
(* class AIResearchAgentIntegration, its seven hook handlers, the four     *)
(* integrate_* method wrappers, and the statistics / health queries.       *)
(*                                                                         *)
(* Values.  Python dicts are functions with a string domain, lists and the *)
(* strings whose length the code takes are sequences, floats are kept as   *)
(* their decimal text, f-strings are tuples of their pieces.  Timestamps   *)
(* (datetime.now()) are left out of every record: no handler reads them.   *)
(* The semantic-graph agent is outside the repository's src/: each call    *)
(* into it either returns or raises, chosen by the environment.            *)
(***************************************************************************)
EXTENDS Integers, Sequences, FiniteSets, TLC

VARIABLES
    integration_stats,   \* self.integration_stats: counter name -> int
    integration_hooks,   \* self.integration_hooks: hook name -> handler
    layers,              \* host method -> number of enhanced_* closures installed on it
    ctx,                 \* execution context -> its position inside a call
    contexts,            \* the execution contexts of the host that issue calls
    forwarded,           \* history: counter name -> invocations that reached its "+= 1"
    last,                \* the call that has just completed, until the host takes its result
    stats_result         \* the dict last returned by get_integration_statistics

vars == <<integration_stats, integration_hooks, layers, ctx, contexts,
          forwarded, last, stats_result>>

\* ------------------------------------------------------------------ bounds
MaxEvents == 2      \* invocations that may reach a counter increment
MaxWraps == 2       \* integrate_* calls
NumContexts == 2    \* execution contexts of the concurrent specification

\* ------------------------------------------------------------------ names
Counters == {"memory_writes", "tool_usage_logs", "findings_captured",
             "retrieval_calls", "plan_generations", "preference_logs",
             "monitoring_events"}

Handlers == {"_handle_memory_output", "_handle_tool_usage", "_handle_finding",
             "_handle_retrieval", "_handle_planning", "_handle_preference",
             "_handle_monitoring"}

Methods == {"save_research_finding", "invoke", "execute_research_step",
            "capture_research_output"}

None == [NoneType |-> TRUE]   \* Python's None, where a dict may stand
EmptyDict == [f \in {} |-> TRUE]
EmptyStr == <<>>               \* '' where the code takes len() of the value

Get(d, key, default) == IF key \in DOMAIN d THEN d[key] ELSE default

RECURSIVE SumOver(_, _)
SumOver(f, S) == IF S = {} THEN 0
                 ELSE LET k == CHOOSE k \in S : TRUE
                      IN f[k] + SumOver(f, S \ {k})

\* sum(d.values())
SumValues(d) == SumOver(d, DOMAIN d)

\* ------------------------------------------------------------------ exceptions
BackendError == [type |-> "RuntimeError", msg |-> "backend down", raised_by |-> "semantic_graph"]
NoExc == [type |-> "", msg |-> "", raised_by |-> ""]       \* no exception
AttributeErrorGet == [type |-> "AttributeError", msg |-> "object has no attribute get", raised_by |-> "handler"]
OriginalErrors == {[type |-> "ValueError", msg |-> "boom", raised_by |-> "original"]}

\* str(e)
Str(e) == e.msg

\* ------------------------------------------------------------------ downstream
\* One invocation's view of the semantic-graph agent: ds.raise_at is the
\* position (1, 2, ...) of the downstream call that raises, 0 when none does;
\* ds.ret is what the request/response call of the handler returns.
RetrievalResults == {[results |-> <<[label |-> "n1", score |-> "0.9", method |-> "graph"]>>],
                     [results |-> <<>>]}
PlanResults == {[plan_steps |-> <<[description |-> "s1"], [description |-> "s2"]>>,
                 graph_connectivity |-> [density |-> "0.4"]]}
PreferenceIds == {"pref_1"}

Returns(handler) ==
    CASE handler = "_handle_retrieval" -> RetrievalResults
      [] handler = "_handle_planning" -> PlanResults
      [] handler = "_handle_preference" -> PreferenceIds
      [] OTHER -> {None}

\* the downstream calls a handler makes when none raises
NumCalls(handler, data) ==
    CASE handler \in {"_handle_retrieval", "_handle_planning"} -> 2
      [] handler = "_handle_monitoring" -> IF Get(data, "success", TRUE) THEN 2 ELSE 3
      [] OTHER -> 1

Downstream(handler, data) ==
    [raise_at : {0}, ret : Returns(handler)] \cup
    {[raise_at |-> 1, ret |-> CHOOSE r \in Returns(handler) : TRUE]} \cup
    [raise_at : 2..NumCalls(handler, data), ret : Returns(handler)]

DownstreamCall(api, args) ==
    [ev |-> "call", api |-> api, args |-> args, raised |-> FALSE, ret |-> None]

\* a request/response call and what it returns
Request(api, args, ret) == [DownstreamCall(api, args) EXCEPT !.ret = ret]

\* Faulty variant, for testing the sensitivity of the properties: a call that raised is made a second time
Made_retries(plan, ds) ==
    IF ds.raise_at \in 1..Len(plan)
    THEN [i \in 1..(ds.raise_at + 1) |->
            IF i >= ds.raise_at THEN [plan[ds.raise_at] EXCEPT !.raised = TRUE]
            ELSE plan[i]]
    ELSE plan

\* Faulty variant, for testing the sensitivity of the properties: nothing is forwarded
Made_nothing(plan, ds) == <<>>

\* The calls of `plan` that are made: all of them, or those up to the one that
\* raises, which returns nothing.
Made(plan, ds) ==
    IF ds.raise_at \in 1..Len(plan)
    THEN [i \in 1..ds.raise_at |->
            IF i = ds.raise_at THEN [plan[i] EXCEPT !.raised = TRUE, !.ret = None]
            ELSE plan[i]]
    ELSE plan

Raised(calls) == \E i \in 1..Len(calls) : calls[i].raised

\* What a handler's try block does up to its counter increment:
\*   counter  the key of integration_stats it increments,
\*   calls    the downstream calls it makes, in order,
\*   exc      the exception its except clause catches (NoExc: the increment is reached),
\*   ack      what it returns after the increment,
\*   error    what its except clause returns (for `early`, else for a downstream error).
\* Faulty variant, for testing the sensitivity of the properties: the counter is incremented in a finally clause, a raising
\* downstream call included
HandlerRun_counts_failures(counter, early, plan, ds, ack, error) ==
    [counter |-> counter, calls |-> IF early # NoExc THEN <<>> ELSE Made(plan, ds),
     exc |-> NoExc, ack |-> error, error |-> error]

HandlerRun(counter, early, plan, ds, ack, error) ==
    LET calls == IF early # NoExc THEN <<>> ELSE Made(plan, ds)
        exc == IF early # NoExc THEN early
               ELSE IF Raised(calls) THEN BackendError ELSE NoExc
    IN [counter |-> counter, calls |-> calls, exc |-> exc, ack |-> ack,
        error |-> error]

\* ------------------------------------------------------------------ handlers
Content120 == [i \in 1..120 |-> "x"]

\* floats that the code computes with are kept in hundredths: 150 is 1.50
Times1000(hundredths) == hundredths * 10                   \* execution_time * 1000
Format2f(hundredths) == <<hundredths \div 100, ".", hundredths % 100>>   \* {:.2f}

\* Faulty variant, for testing the sensitivity of the properties: a memory write is counted as a tool use
_handle_memory_output_as_tool_use(memory_data, ds) ==
    LET content == Get(memory_data, "content", EmptyStr)
        ingestion_data == [content |-> content,
                           importance |-> Get(memory_data, "importance", "0.5"),
                           memory_type |-> Get(memory_data, "memory_type", "general"),
                           session_id |-> Get(memory_data, "session_id", "default"),
                           source |-> "memory_manager"]
        plan == <<DownstreamCall("ingest_event",
                      [source |-> "MEMORY", data |-> ingestion_data, priority |-> 2])>>
    IN HandlerRun("tool_usage_logs", NoExc, plan, ds,
                  <<"Memory content ingested into semantic graph: ", Len(content), " chars">>,
                  <<"Memory integration error: ", Str(BackendError)>>)

_handle_memory_output(memory_data, ds) ==
    LET content == Get(memory_data, "content", EmptyStr)
        importance == Get(memory_data, "importance", "0.5")
        memory_type == Get(memory_data, "memory_type", "general")
        session_id == Get(memory_data, "session_id", "default")
        base == [content |-> content, importance |-> importance,
                 memory_type |-> memory_type, session_id |-> session_id,
                 source |-> "memory_manager"]
        with_concepts == IF "concepts" \in DOMAIN memory_data
                         THEN ("concepts" :> memory_data["concepts"]) @@ base
                         ELSE base
        ingestion_data == IF "citations" \in DOMAIN memory_data
                          THEN ("citations" :> memory_data["citations"]) @@ with_concepts
                          ELSE with_concepts
        plan == <<DownstreamCall("ingest_event",
                      [source |-> "MEMORY", data |-> ingestion_data, priority |-> 2])>>
        error_of(e) == <<"Memory integration error: ", Str(e)>>
    IN HandlerRun("memory_writes", NoExc, plan, ds,
                  <<"Memory content ingested into semantic graph: ", Len(content), " chars">>,
                  error_of(BackendError))

\* Faulty variant, for testing the sensitivity of the properties: a failed tool use is not counted
_handle_tool_usage_success_only(tool_data, ds) ==
    LET tool_name == Get(tool_data, "tool_name", "")
        success == Get(tool_data, "success", TRUE)
        usage_data == [tool_name |-> tool_name, input |-> Get(tool_data, "tool_input", ""),
                       output |-> Get(tool_data, "tool_output", ""),
                       execution_time |-> Get(tool_data, "execution_time", 0),
                       success |-> success,
                       usage_context |-> Get(tool_data, "context", "research")]
        calls == Made(<<DownstreamCall("ingest_event",
                           [source |-> "TOOL_USAGE", data |-> usage_data, priority |-> 1])>>, ds)
        error == <<"Tool usage integration error: ", Str(BackendError)>>
    IN [counter |-> "tool_usage_logs", calls |-> calls,
        exc |-> IF Raised(calls) \/ ~success THEN BackendError ELSE NoExc,
        ack |-> <<"Tool usage logged: ", tool_name, " -> semantic graph">>,
        error |-> error]

_handle_tool_usage(tool_data, ds) ==
    LET tool_name == Get(tool_data, "tool_name", "")
        tool_input == Get(tool_data, "tool_input", "")
        tool_output == Get(tool_data, "tool_output", "")
        execution_time == Get(tool_data, "execution_time", 0)
        success == Get(tool_data, "success", TRUE)
        usage_data == [tool_name |-> tool_name, input |-> tool_input,
                       output |-> tool_output, execution_time |-> execution_time,
                       success |-> success,
                       usage_context |-> Get(tool_data, "context", "research")]
        plan == <<DownstreamCall("ingest_event",
                      [source |-> "TOOL_USAGE", data |-> usage_data, priority |-> 1])>>
        error_of(e) == <<"Tool usage integration error: ", Str(e)>>
    IN HandlerRun("tool_usage_logs", NoExc, plan, ds,
                  <<"Tool usage logged: ", tool_name, " -> semantic graph">>, error_of(BackendError))

_handle_finding(finding_data, ds) ==
    LET finding_content == Get(finding_data, "finding", EmptyStr)
        step_info == Get(finding_data, "step_info", EmptyDict)
        confidence == Get(finding_data, "confidence", "0.5")
        sources == Get(finding_data, "sources", <<>>)
        analysis == Get(finding_data, "analysis", EmptyStr)
        \* step_info.get(...) raises AttributeError when step_info is None
        early == IF step_info = None THEN AttributeErrorGet ELSE NoExc
        research_data == [finding |-> finding_content, analysis |-> analysis,
                          confidence |-> confidence, sources |-> sources,
                          step_info |-> step_info,
                          research_step |-> IF step_info = None THEN None
                                            ELSE Get(step_info, "step_number", 0)]
        plan == <<DownstreamCall("ingest_event",
                      [source |-> "RESEARCH_FINDINGS", data |-> research_data, priority |-> 2])>>
        error_of(e) == <<"Finding capture error: ", Str(e)>>
    IN HandlerRun("findings_captured", early, plan, ds,
                  <<"Research finding captured: ", Len(finding_content), " chars">>,
                  error_of(IF early # NoExc THEN early ELSE BackendError))

\* Faulty variant, for testing the sensitivity of the properties: a failure of the log ingest is ignored
_handle_retrieval_ignores_log_failure(retrieval_data, ds) ==
    LET results == ds.ret
        calls == Made(<<Request("enhanced_retrieval",
                           [query |-> Get(retrieval_data, "query", ""),
                            query_embedding |-> Get(retrieval_data, "query_embedding", None),
                            strategy |-> Get(retrieval_data, "strategy", "hybrid"),
                            top_k |-> Get(retrieval_data, "top_k", 10),
                            node_types |-> Get(retrieval_data, "node_types", None)],
                           results),
                        DownstreamCall("ingest_event",
                           [source |-> "RETRIEVAL_LOGS", data |-> EmptyDict, priority |-> 1])>>,
                      ds)
    IN [counter |-> "retrieval_calls", calls |-> calls,
        exc |-> IF ds.raise_at = 1 THEN BackendError ELSE NoExc,
        ack |-> results, error |-> [error |-> Str(BackendError), results |-> <<>>]]

_handle_retrieval(retrieval_data, ds) ==
    LET query == Get(retrieval_data, "query", "")
        query_embedding == Get(retrieval_data, "query_embedding", None)
        strategy == Get(retrieval_data, "strategy", "hybrid")
        top_k == Get(retrieval_data, "top_k", 10)
        node_types == Get(retrieval_data, "node_types", None)
        results == ds.ret
        retrieval_log == [query |-> query, strategy |-> strategy,
                          results_count |-> Len(Get(results, "results", <<>>))]
        plan == <<Request("enhanced_retrieval",
                      [query |-> query, query_embedding |-> query_embedding,
                       strategy |-> strategy, top_k |-> top_k, node_types |-> node_types],
                      results),
                  DownstreamCall("ingest_event",
                      [source |-> "RETRIEVAL_LOGS", data |-> retrieval_log, priority |-> 1])>>
        error_of(e) == [error |-> Str(e), results |-> <<>>]
    IN HandlerRun("retrieval_calls", NoExc, plan, ds, results, error_of(BackendError))

\* Faulty variant, for testing the sensitivity of the properties: only the steps of the plan are returned
_handle_planning_returns_steps(planning_data, ds) ==
    LET plan_result == ds.ret
        plan == <<Request("enhanced_planning",
                      [research_question |-> Get(planning_data, "research_question", ""),
                       context |-> Get(planning_data, "context", EmptyDict),
                       strategy |-> Get(planning_data, "strategy", "hybrid"),
                       max_steps |-> Get(planning_data, "max_steps", 8)],
                      plan_result),
                  DownstreamCall("ingest_event",
                      [source |-> "PLANNER_OUTPUTS", data |-> EmptyDict, priority |-> 2])>>
    IN HandlerRun("plan_generations", NoExc, plan, ds,
                  [plan_steps |-> plan_result.plan_steps],
                  [error |-> Str(BackendError), plan_steps |-> <<>>])

\* Faulty variant, for testing the sensitivity of the properties: max_steps defaults to 10
_handle_planning_default10(planning_data, ds) ==
    LET research_question == Get(planning_data, "research_question", "")
        context == Get(planning_data, "context", EmptyDict)
        strategy == Get(planning_data, "strategy", "hybrid")
        max_steps == Get(planning_data, "max_steps", 10)
        plan_result == ds.ret
        planning_log == [research_question |-> research_question, strategy |-> strategy,
                         plan_steps |-> Len(Get(plan_result, "plan_steps", <<>>)),
                         graph_connectivity |-> Get(plan_result, "graph_connectivity", EmptyDict)]
        plan == <<Request("enhanced_planning",
                      [research_question |-> research_question, context |-> context,
                       strategy |-> strategy, max_steps |-> max_steps],
                      plan_result),
                  DownstreamCall("ingest_event",
                      [source |-> "PLANNER_OUTPUTS", data |-> planning_log, priority |-> 2])>>
        error_of(e) == [error |-> Str(e), plan_steps |-> <<>>]
    IN HandlerRun("plan_generations", NoExc, plan, ds, plan_result, error_of(BackendError))

_handle_planning(planning_data, ds) ==
    LET research_question == Get(planning_data, "research_question", "")
        context == Get(planning_data, "context", EmptyDict)
        strategy == Get(planning_data, "strategy", "hybrid")
        max_steps == Get(planning_data, "max_steps", 8)
        plan_result == ds.ret
        planning_log == [research_question |-> research_question, strategy |-> strategy,
                         plan_steps |-> Len(Get(plan_result, "plan_steps", <<>>)),
                         graph_connectivity |-> Get(plan_result, "graph_connectivity", EmptyDict)]
        plan == <<Request("enhanced_planning",
                      [research_question |-> research_question, context |-> context,
                       strategy |-> strategy, max_steps |-> max_steps],
                      plan_result),
                  DownstreamCall("ingest_event",
                      [source |-> "PLANNER_OUTPUTS", data |-> planning_log, priority |-> 2])>>
        error_of(e) == [error |-> Str(e), plan_steps |-> <<>>]
    IN HandlerRun("plan_generations", NoExc, plan, ds, plan_result, error_of(BackendError))

_handle_preference(preference_data, ds) ==
    LET preference_id == ds.ret
        plan == <<Request("record_user_feedback",
                      [user_id |-> Get(preference_data, "user_id", "anonymous"),
                       preferred_content |-> Get(preference_data, "preferred_content", ""),
                       rejected_content |-> Get(preference_data, "rejected_content", ""),
                       feedback_type |-> Get(preference_data, "feedback_type", "quality"),
                       confidence |-> Get(preference_data, "confidence", "1.0"),
                       context |-> Get(preference_data, "context", "")],
                      preference_id)>>
        error_of(e) == <<"Preference logging error: ", Str(e)>>
    IN HandlerRun("preference_logs", NoExc, plan, ds,
                  <<"User preference recorded: ", preference_id>>, error_of(BackendError))

\* Faulty variant, for testing the sensitivity of the properties: record_error is called for every step
_handle_monitoring_always_error(monitoring_data, ds) ==
    LET step_name == Get(monitoring_data, "step_name", "unknown")
        execution_time == Get(monitoring_data, "execution_time", 0)
        plan == <<DownstreamCall("record_operation_time",
                      [name |-> step_name, ms |-> Times1000(execution_time)]),
                  DownstreamCall("record_error",
                      [error_type |-> Get(monitoring_data, "error_type", "general_error")]),
                  DownstreamCall("record_context_event",
                      [context_type |-> "monitoring",
                       content |-> <<"Step: ", step_name, ", Time: ",
                                     Format2f(execution_time), "s">>,
                       relevance |-> "0.3"])>>
    IN HandlerRun("monitoring_events", NoExc, plan, ds,
                  <<"Monitoring data recorded for step: ", step_name>>,
                  <<"Monitoring integration error: ", Str(BackendError)>>)

_handle_monitoring(monitoring_data, ds) ==
    LET step_name == Get(monitoring_data, "step_name", "unknown")
        execution_time == Get(monitoring_data, "execution_time", 0)
        success == Get(monitoring_data, "success", TRUE)
        metrics == Get(monitoring_data, "metrics", EmptyDict)
        timing == <<DownstreamCall("record_operation_time",
                        [name |-> step_name, ms |-> Times1000(execution_time)])>>
        errors == IF ~success
                  THEN <<DownstreamCall("record_error",
                             [error_type |-> Get(monitoring_data, "error_type", "general_error")])>>
                  ELSE <<>>
        log == <<DownstreamCall("record_context_event",
                     [context_type |-> "monitoring",
                      content |-> <<"Step: ", step_name, ", Time: ", Format2f(execution_time), "s">>,
                      relevance |-> "0.3"])>>
        error_of(e) == <<"Monitoring integration error: ", Str(e)>>
    IN HandlerRun("monitoring_events", NoExc, timing \o errors \o log, ds,
                  <<"Monitoring data recorded for step: ", step_name>>, error_of(BackendError))

Handle(handler, data, ds) ==
    CASE handler = "_handle_memory_output" -> _handle_memory_output(data, ds)
      [] handler = "_handle_tool_usage" -> _handle_tool_usage(data, ds)
      [] handler = "_handle_finding" -> _handle_finding(data, ds)
      [] handler = "_handle_retrieval" -> _handle_retrieval(data, ds)
      [] handler = "_handle_planning" -> _handle_planning(data, ds)
      [] handler = "_handle_preference" -> _handle_preference(data, ds)
      [] handler = "_handle_monitoring" -> _handle_monitoring(data, ds)

\* the payloads the host passes to a handler it calls directly
Payloads(handler) ==
    CASE handler = "_handle_memory_output" ->
            {EmptyDict, [content |-> Content120, importance |-> "0.8"]}
      [] handler = "_handle_tool_usage" ->
            {EmptyDict,
             [tool_name |-> "search", tool_input |-> "q", tool_output |-> "failed",
              execution_time |-> 150, success |-> FALSE]}
      [] handler = "_handle_finding" -> {EmptyDict, [step_info |-> None]}
      [] handler = "_handle_retrieval" -> {EmptyDict}
      [] handler = "_handle_planning" -> {EmptyDict}
      [] handler = "_handle_preference" -> {EmptyDict}
      [] handler = "_handle_monitoring" ->
            {EmptyDict,
             [step_name |-> "plan", execution_time |-> 150, success |-> TRUE],
             [step_name |-> "plan", success |-> FALSE, error_type |-> "timeout"]}

\* ------------------------------------------------------------------ construction
\* Faulty variant, for testing the sensitivity of the properties: the monitoring hook is not registered
_register_integration_hooks_without_monitoring ==
    [hook \in {"memory_writes", "tool_usage_logs", "findings_capture", "retrieval_calls",
               "plan_generation", "preference_logging"} |->
        CASE hook = "memory_writes" -> "_handle_memory_output"
          [] hook = "tool_usage_logs" -> "_handle_tool_usage"
          [] hook = "findings_capture" -> "_handle_finding"
          [] hook = "retrieval_calls" -> "_handle_retrieval"
          [] hook = "plan_generation" -> "_handle_planning"
          [] hook = "preference_logging" -> "_handle_preference"]

\* _register_integration_hooks: the seven entries of the registry
_register_integration_hooks ==
    [hook \in {"memory_writes", "tool_usage_logs", "findings_capture", "retrieval_calls",
               "plan_generation", "preference_logging", "monitoring"} |->
        CASE hook = "memory_writes" -> "_handle_memory_output"
          [] hook = "tool_usage_logs" -> "_handle_tool_usage"
          [] hook = "findings_capture" -> "_handle_finding"
          [] hook = "retrieval_calls" -> "_handle_retrieval"
          [] hook = "plan_generation" -> "_handle_planning"
          [] hook = "preference_logging" -> "_handle_preference"
          [] hook = "monitoring" -> "_handle_monitoring"]

\* __init__: every counter is 0
InitialStats == [k \in Counters |-> 0]

IdleCtx == [pc |-> "idle"]
NoCall == [op |-> "none"]
NoResult == [no_result |-> TRUE]

InitWith(cs) ==
    /\ integration_stats = InitialStats
    /\ integration_hooks = _register_integration_hooks
    /\ layers = [m \in Methods |-> 0]
    /\ contexts = cs
    /\ ctx = [c \in cs |-> IdleCtx]
    /\ forwarded = [k \in Counters |-> 0]
    /\ last = NoCall
    /\ stats_result = NoResult

\* one execution context: the host calls the layer sequentially
Init == InitWith({1})

\* several execution contexts call the layer concurrently
InitConc == InitWith(1..NumContexts)

\* ------------------------------------------------------------------ bookkeeping
\* Counter increments a context may still make in the call it is in.
Reserved(c) ==
    IF ctx[c].pc = "idle" \/ ctx[c].name = "capture_research_output" THEN 0
    ELSE ctx[c].nlayers - ctx[c].layer + 1

\* The cap on the model's counters: a call starts only if every increment it
\* and the calls in flight can make fits under MaxEvents.
CanReserve(n) ==
    SumValues(forwarded) + SumOver([c \in contexts |-> Reserved(c)], contexts) + n <= MaxEvents

\* Faulty variant, for testing the sensitivity of the properties: "-= 1"
Increment_minus(loaded) == loaded - 1

\* self.integration_stats[counter] += 1 is a load (at the end of the step that
\* made the last downstream call), an add and a store.
Increment(loaded) == loaded + 1

HandlerEvent(handler, data, layer) ==
    [ev |-> "handler", handler |-> handler, data |-> data, layer |-> layer]
HandlerReturn(value, layer) == [ev |-> "handler_return", value |-> value, layer |-> layer]
IncrEvent(counter, layer) == [ev |-> "incr", counter |-> counter, layer |-> layer]

Returned(value) == [kind |-> "returned", val |-> value]
RaisedExc(exc) == [kind |-> "raised", val |-> exc]

Completed(c, op, name, arg, orig, outcome, trace, pre, nlayers) ==
    [op |-> op, name |-> name, arg |-> arg, orig |-> orig, outcome |-> outcome,
     trace |-> trace, pre |-> pre, nlayers |-> nlayers, by |-> c]

\* A context starts a call when it is in none and the host has taken the
\* result of the call that completed before.
Idle(c) == ctx[c].pc = "idle" /\ last = NoCall

\* The host takes the result of the call that has just completed.
Observe ==
    /\ last # NoCall
    /\ last' = NoCall
    /\ UNCHANGED <<integration_stats, integration_hooks, layers, ctx, contexts, forwarded,
                   stats_result>>

\* ------------------------------------------------------------------ handler steps
InHandler(op, name, arg, orig, cur, nlayers, layer, h, trace, pre) ==
    [pc |-> "store", op |-> op, name |-> name, arg |-> arg, orig |-> orig, cur |-> cur,
     nlayers |-> nlayers, layer |-> layer, counter |-> h.counter,
     loaded |-> integration_stats[h.counter], ack |-> h.ack, trace |-> trace, pre |-> pre]

InWrapper(name, arg, orig, cur, nlayers, layer, trace, pre) ==
    [pc |-> "layer", op |-> "host", name |-> name, arg |-> arg, orig |-> orig, cur |-> cur,
     nlayers |-> nlayers, layer |-> layer, counter |-> "", loaded |-> 0, ack |-> None,
     trace |-> trace, pre |-> pre]

\* The host calls a handler itself, through the registry: the handler's try
\* block up to the load of its counter, or the whole call when its except
\* clause runs.
CallHandler(c, hook, data, ds) ==
    LET handler == integration_hooks[hook]
        h == Handle(handler, data, ds)
        trace == <<HandlerEvent(handler, data, 0)>> \o h.calls
    IN /\ Idle(c)
       /\ IF h.exc # NoExc
          THEN /\ last' = Completed(c, "handler", handler, data, NoCall, Returned(h.error),
                                    trace \o <<HandlerReturn(h.error, 0)>>,
                                    integration_stats, 0)
               /\ UNCHANGED ctx
          ELSE /\ CanReserve(1)
               /\ ctx' = [ctx EXCEPT ![c] = InHandler("handler", handler, data, NoCall,
                                                Returned(None), 0, 0, h, trace,
                                                integration_stats)]
               /\ UNCHANGED last
       /\ UNCHANGED <<integration_stats, integration_hooks, layers, contexts, forwarded,
                      stats_result>>

\* A wrapper is left at st.layer with `out` (the value it returns or the
\* exception that leaves it): the next wrapper outwards resumes, or the host
\* call is over.
LeaveLayer(c, st, out, trace) ==
    LET trace2 == trace \o <<[ev |-> "wrapper_exit", layer |-> st.layer, outcome |-> out]>>
    IN IF st.layer = st.nlayers
       THEN /\ ctx' = [ctx EXCEPT ![c] = IdleCtx]
            /\ last' = Completed(c, "host", st.name, st.arg, st.orig, out, trace2,
                                 st.pre, st.nlayers)
       ELSE /\ ctx' = [ctx EXCEPT ![c] = InWrapper(st.name, st.arg, st.orig, out,
                                              st.nlayers, st.layer + 1, trace2, st.pre)]
            /\ UNCHANGED last

\* Faulty variant, for testing the sensitivity of the properties: the caller is given the forwarding error
enhanced_invoke_exit_backend(inner) ==
    IF inner.kind = "returned" THEN inner ELSE RaisedExc(BackendError)

\* enhanced_invoke, lines 403-406: raise Exception(error) or return result
\* Faulty variant, for testing the sensitivity of the properties: the failure text is returned instead of raised
enhanced_invoke_exit_swallow(inner) ==
    IF inner.kind = "returned" THEN inner
    ELSE Returned(<<"Tool execution failed: ", Str(inner.val)>>)

enhanced_invoke_exit(inner) ==
    IF inner.kind = "returned" THEN inner
    ELSE RaisedExc([type |-> "Exception", msg |-> Str(inner.val),
                    raised_by |-> "enhanced_invoke"])

\* What a wrapper does once the handler it called has returned.
WrapperExit(method, inner) ==
    IF method = "invoke" THEN enhanced_invoke_exit(inner) ELSE inner

AfterHandler(c, st, trace) == LeaveLayer(c, st, WrapperExit(st.name, st.cur), trace)

\* The store of "+= 1" and the handler's return.
HandlerStore(c) ==
    LET st == ctx[c]
        trace == st.trace \o <<IncrEvent(st.counter, st.layer),
                               HandlerReturn(st.ack, st.layer)>>
    IN /\ st.pc = "store"
       /\ integration_stats' = [integration_stats EXCEPT ![st.counter] = Increment(st.loaded)]
       /\ forwarded' = [forwarded EXCEPT ![st.counter] = @ + 1]
       /\ IF st.op = "handler"
          THEN /\ ctx' = [ctx EXCEPT ![c] = IdleCtx]
               /\ last' = Completed(c, "handler", st.name, st.arg, NoCall, Returned(st.ack),
                                    trace, st.pre, 0)
          ELSE AfterHandler(c, st, trace)
       /\ UNCHANGED <<integration_hooks, layers, contexts, stats_result>>

\* ------------------------------------------------------------------ wrappers
\* the attributes of the host's memory manager that the wrapper reads
MemoryManagerAttrs == [current_episode_id |-> "ep1"]

\* elements of a research state's findings
Finding1 == [analysis |-> <<"a", "1">>, step |-> 0, step_description |-> "d1",
             external_research |-> <<"src1">>]
Finding2 == [analysis |-> <<"a", "2", "!">>, step |-> 1]

\* the arguments the host passes to its own methods
Args(method) ==
    CASE method = "save_research_finding" ->
            {[content |-> Content120, importance |-> "0.8",
              kwargs |-> [concepts |-> <<"c1">>]]}
      [] method = "invoke" ->
            {[tool |-> "search", tool_input |-> "q"]}
      [] method = "execute_research_step" ->
            {[findings |-> <<>>], [findings |-> <<Finding1, Finding2>>]}
      [] method = "capture_research_output" ->
            {[research_result |-> "r", research_question |-> "rq", session_id |-> "s1"]}

\* what the host's original method does: the value it returns or the exception it raises
Outcomes(method) ==
    {RaisedExc(e) : e \in OriginalErrors} \cup
    CASE method = "save_research_finding" -> {Returned("saved")}
      [] method = "invoke" -> {Returned("tool result")}
      [] method = "execute_research_step" ->
            {Returned(EmptyDict), Returned([findings |-> <<>>]),
             Returned([findings |-> <<Finding1, Finding2>>])}
      [] method = "capture_research_output" -> {Returned("captured")}

CallFromWrapper(c, st, handler, data, ds) ==
    LET h == Handle(handler, data, ds)
        trace == st.trace \o <<HandlerEvent(handler, data, st.layer)>> \o h.calls
    IN IF h.exc # NoExc
       THEN AfterHandler(c, st, trace \o <<HandlerReturn(h.error, st.layer)>>)
       ELSE /\ ctx' = [ctx EXCEPT ![c] = InHandler("host", st.name, st.arg, st.orig, st.cur,
                                               st.nlayers, st.layer, h, trace, st.pre)]
            /\ UNCHANGED last

\* Faulty variant, for testing the sensitivity of the properties: the memory handler is called even when the
\* original method raised
enhanced_save_finding_on_failure(c, st, ds) ==
    CallFromWrapper(c, st, "_handle_memory_output",
                    st.arg.kwargs @@ [content |-> st.arg.content,
                                      importance |-> st.arg.importance,
                                      memory_type |-> "research_finding",
                                      session_id |-> "default"], ds)

\* integrate_memory_manager: the closure, after original_save_method
enhanced_save_finding(c, st, ds) ==
    LET base == [content |-> st.arg.content, importance |-> st.arg.importance,
                 memory_type |-> "research_finding",
                 session_id |-> Get(MemoryManagerAttrs, "current_episode_id", "default")]
        memory_data == st.arg.kwargs @@ base        \* {..., **kwargs}: kwargs win
    IN IF st.cur.kind = "raised"
       THEN LeaveLayer(c, st, st.cur, st.trace)
       ELSE CallFromWrapper(c, st, "_handle_memory_output", memory_data, ds)

\* integrate_tool_executor: the closure, after original_invoke_method
enhanced_invoke(c, st, ds) ==
    LET success == st.cur.kind = "returned"
        result == IF success THEN st.cur.val
                  ELSE <<"Tool execution failed: ", Str(st.cur.val)>>
        tool_data == [tool_name |-> Get(st.arg, "tool", "unknown"),
                      tool_input |-> Get(st.arg, "tool_input", ""),
                      tool_output |-> result,
                      execution_time |-> 1,     \* the time measured around the call
                      success |-> success,
                      error |-> IF success THEN None ELSE Str(st.cur.val)]
    IN CallFromWrapper(c, st, "_handle_tool_usage", tool_data, ds)

\* Faulty variant, for testing the sensitivity of the properties: the first finding is captured
enhanced_execute_step_first(c, st, ds) ==
    LET result_state == st.cur.val
        first == result_state["findings"][1]
        finding_data == [finding |-> Get(first, "analysis", EmptyStr),
                         step_info |-> [step_number |-> Get(first, "step", 0),
                                        step_description |->
                                            Get(first, "step_description", "")],
                         confidence |-> "0.7",
                         sources |-> Get(first, "external_research", <<>>),
                         analysis |-> Get(first, "analysis", EmptyStr)]
    IN IF st.cur.kind = "raised"
       THEN LeaveLayer(c, st, st.cur, st.trace)
       ELSE IF "findings" \in DOMAIN result_state /\ result_state["findings"] # <<>>
            THEN CallFromWrapper(c, st, "_handle_finding", finding_data, ds)
            ELSE LeaveLayer(c, st, st.cur, st.trace)

\* integrate_research_loop: the closure, after original_execute_step
enhanced_execute_step(c, st, ds) ==
    LET result_state == st.cur.val
        findings == result_state["findings"]
        latest_finding == findings[Len(findings)]
        finding_data == [finding |-> Get(latest_finding, "analysis", EmptyStr),
                         step_info |-> [step_number |-> Get(latest_finding, "step", 0),
                                        step_description |->
                                            Get(latest_finding, "step_description", "")],
                         confidence |-> "0.7",
                         sources |-> Get(latest_finding, "external_research", <<>>),
                         analysis |-> Get(latest_finding, "analysis", EmptyStr)]
    IN IF st.cur.kind = "raised"
       THEN LeaveLayer(c, st, st.cur, st.trace)
       ELSE IF "findings" \in DOMAIN result_state /\ result_state["findings"] # <<>>
            THEN CallFromWrapper(c, st, "_handle_finding", finding_data, ds)
            ELSE LeaveLayer(c, st, st.cur, st.trace)

\* integrate_rlhf_system: the closure, after original_capture_method; the
\* context event is recorded outside any try block
enhanced_capture_output(c, st, ds) ==
    LET calls == Made(<<DownstreamCall("record_context_event",
                           [context_type |-> "rlhf_capture",
                            content |-> <<"Research output captured for feedback: ",
                                          st.arg.session_id>>,
                            relevance |-> "0.5"])>>, ds)
    IN IF st.cur.kind = "raised"
       THEN LeaveLayer(c, st, st.cur, st.trace)
       ELSE LeaveLayer(c, st, IF Raised(calls) THEN RaisedExc(BackendError) ELSE st.cur,
                       st.trace \o calls)

\* The host calls one of its methods: the wrappers installed on it are
\* entered, outermost first, and the original method runs.
HostCall(c, method, args, out) ==
    LET n == layers[method]
        trace == <<[ev |-> "original", method |-> method, args |-> args, outcome |-> out]>>
    IN /\ Idle(c)
       /\ CanReserve(IF method = "capture_research_output" THEN 0 ELSE n)
       /\ IF n = 0
          THEN /\ last' = Completed(c, "host", method, args, out, out, trace,
                                    integration_stats, 0)
               /\ UNCHANGED ctx
          ELSE /\ ctx' = [ctx EXCEPT ![c] = InWrapper(method, args, out, out, n, 1, trace,
                                                integration_stats)]
               /\ UNCHANGED last
       /\ UNCHANGED <<integration_stats, integration_hooks, layers, contexts, forwarded,
                      stats_result>>

\* The wrapper at ctx[c].layer resumes after the call it made inwards.
LayerStep(c, ds) ==
    LET st == ctx[c]
    IN /\ st.pc = "layer"
       /\ CASE st.name = "save_research_finding" -> enhanced_save_finding(c, st, ds)
            [] st.name = "invoke" -> enhanced_invoke(c, st, ds)
            [] st.name = "execute_research_step" -> enhanced_execute_step(c, st, ds)
            [] st.name = "capture_research_output" -> enhanced_capture_output(c, st, ds)
       /\ UNCHANGED <<integration_stats, integration_hooks, layers, contexts, forwarded,
                      stats_result>>

\* ------------------------------------------------------------------ wiring
\* integrate_*: method = enhanced_*, a closure over the method found there
Integrate(c, method) ==
    /\ Idle(c)
    /\ SumValues(layers) < MaxWraps
    /\ layers' = [layers EXCEPT ![method] = @ + 1]
    /\ last' = Completed(c, "integrate", method, None, NoCall, Returned(None), <<>>,
                         integration_stats, layers[method])
    /\ UNCHANGED <<integration_stats, integration_hooks, ctx, contexts, forwarded,
                   stats_result>>

integrate_memory_manager(c) == Integrate(c, "save_research_finding")
integrate_tool_executor(c) == Integrate(c, "invoke")
integrate_research_loop(c) == Integrate(c, "execute_research_step")
integrate_rlhf_system(c) == Integrate(c, "capture_research_output")

\* the research agents handed to integrate_research_agent_with_semantic_graph:
\* which of the attributes the helper looks for the agent has
ResearchAgents ==
    {[advanced_memory_tools |-> TRUE, tool_executor |-> TRUE,
      execute_research_step |-> TRUE, rlhf_enabled |-> TRUE],
     [advanced_memory_tools |-> FALSE, tool_executor |-> TRUE,
      execute_research_step |-> TRUE, rlhf_enabled |-> FALSE],
     [advanced_memory_tools |-> TRUE, tool_executor |-> TRUE,
      execute_research_step |-> FALSE, rlhf_enabled |-> FALSE],
     [advanced_memory_tools |-> FALSE, tool_executor |-> FALSE,
      execute_research_step |-> FALSE, rlhf_enabled |-> FALSE]}

AttributeErrorStep == [type |-> "AttributeError",
                       msg |-> "object has no attribute execute_research_step",
                       raised_by |-> "integrate_research_loop"]

\* method = enhanced_* on the wiring table l
Wrap(l, method) == [l EXCEPT ![method] = @ + 1]

WireEvent(operation) == [ev |-> "integrate", operation |-> operation]

\* integrate_research_agent_with_semantic_graph, called by run_research on the
\* agent it has just created: the semantic-graph agent is created (or its
\* creation raises), then the integrate_* operations run in turn; the first
\* that raises ends the helper, and what ran before it stays in place.
integrate_research_agent_with_semantic_graph(c, research_agent, created) ==
    LET l1 == IF research_agent.advanced_memory_tools
              THEN Wrap(layers, "save_research_finding") ELSE layers
        t1 == IF research_agent.advanced_memory_tools
              THEN <<WireEvent("integrate_memory_manager")>> ELSE <<>>
        l2 == IF research_agent.tool_executor THEN Wrap(l1, "invoke") ELSE l1
        t2 == IF research_agent.tool_executor
              THEN t1 \o <<WireEvent("integrate_tool_executor")>> ELSE t1
        l3 == Wrap(l2, "execute_research_step")
        t3 == t2 \o <<WireEvent("integrate_research_loop")>>
        l4 == IF research_agent.rlhf_enabled THEN Wrap(l3, "capture_research_output") ELSE l3
        t4 == IF research_agent.rlhf_enabled
              THEN t3 \o <<WireEvent("integrate_rlhf_system")>> ELSE t3
        done(l, t, outcome) ==
            /\ layers' = l
            /\ last' = Completed(c, "wire", "integrate_research_agent_with_semantic_graph",
                                 research_agent, NoCall, outcome, t, layers, 0)
    IN /\ Idle(c)
       /\ SumValues(layers) = 0 /\ SumValues(forwarded) = 0 /\ stats_result = NoResult
       /\ IF ~created THEN done(layers, <<>>, RaisedExc(BackendError))
          ELSE IF ~research_agent.execute_research_step
               THEN done(l2, t2, RaisedExc(AttributeErrorStep))
               ELSE done(l4, t4, Returned(None))
       /\ UNCHANGED <<integration_stats, integration_hooks, ctx, contexts, forwarded,
                      stats_result>>

\* ------------------------------------------------------------------ queries
\* The returned dict holds self.integration_stats itself, not a copy.
StatsRef == [ref |-> "self.integration_stats"]
Deref(v) == IF v = StatsRef THEN integration_stats ELSE v

\* Faulty variant, for testing the sensitivity of the properties: the total taken as len(self.integration_stats)
get_integration_statistics_result_len ==
    [integration_stats |-> StatsRef,
     semantic_graph_stats |-> "comprehensive_stats",
     hooks_registered |-> Cardinality(DOMAIN integration_hooks),
     total_integrations |-> Cardinality(DOMAIN integration_stats)]

get_integration_statistics_result ==
    [integration_stats |-> StatsRef,
     semantic_graph_stats |-> "comprehensive_stats",
     hooks_registered |-> Cardinality(DOMAIN integration_hooks),
     total_integrations |-> SumValues(integration_stats)]

\* Faulty variant, for testing the sensitivity of the properties: the events processed are reported as errors
get_integration_health_result_errors ==
    LET total == SumValues(integration_stats)
    IN [integration_points_active |-> Cardinality(DOMAIN integration_hooks),
        total_events_processed |-> total,
        semantic_graph_health |-> "dashboard_data",
        integration_errors |-> total,
        status |-> IF total > 0 THEN "active" ELSE "idle"]

\* Faulty variant, for testing the sensitivity of the properties: active only from the second event on
get_integration_health_result_gt1 ==
    LET total == SumValues(integration_stats)
    IN [integration_points_active |-> Cardinality(DOMAIN integration_hooks),
        total_events_processed |-> total,
        semantic_graph_health |-> "dashboard_data",
        integration_errors |-> 0,
        status |-> IF total > 1 THEN "active" ELSE "idle"]

\* Faulty variant, for testing the sensitivity of the properties: the status is taken from the number of registered hooks
get_integration_health_result_hooks ==
    LET total == SumValues(integration_stats)
    IN [integration_points_active |-> Cardinality(DOMAIN integration_hooks),
        total_events_processed |-> total,
        semantic_graph_health |-> "dashboard_data",
        integration_errors |-> 0,
        status |-> IF Cardinality(DOMAIN integration_hooks) > 0 THEN "active" ELSE "idle"]

get_integration_health_result ==
    LET total == SumValues(integration_stats)
    IN [integration_points_active |-> Cardinality(DOMAIN integration_hooks),
        total_events_processed |-> total,
        semantic_graph_health |-> "dashboard_data",
        integration_errors |-> 0,
        status |-> IF total > 0 THEN "active" ELSE "idle"]

\* Faulty variant, for testing the sensitivity of the properties: a query resets the counters
Query_resets(c, name, api, ds, result) ==
    LET calls == Made(<<DownstreamCall(api, EmptyDict)>>, ds)
    IN /\ Idle(c)
       /\ last' = Completed(c, "query", name, None, NoCall,
                            IF Raised(calls) THEN RaisedExc(BackendError) ELSE Returned(result),
                            calls, integration_stats, 0)
       /\ integration_stats' = InitialStats
       /\ UNCHANGED <<integration_hooks, layers, ctx, contexts, forwarded>>

\* A query or the flush: one downstream call, outside any try block.
Query(c, name, api, ds, result) ==
    LET calls == Made(<<DownstreamCall(api, EmptyDict)>>, ds)
    IN /\ Idle(c)
       /\ last' = Completed(c, "query", name, None, NoCall,
                            IF Raised(calls) THEN RaisedExc(BackendError) ELSE Returned(result),
                            calls, integration_stats, 0)
       /\ UNCHANGED <<integration_stats, integration_hooks, layers, ctx, contexts, forwarded>>

get_integration_statistics(c, ds) ==
    /\ Query(c, "get_integration_statistics", "get_comprehensive_stats", ds,
             get_integration_statistics_result)
    /\ stats_result' = IF ds.raise_at = 1 THEN stats_result
                       ELSE get_integration_statistics_result

get_integration_health(c, ds) ==
    /\ Query(c, "get_integration_health", "get_monitoring_dashboard_data", ds,
             get_integration_health_result)
    /\ UNCHANGED stats_result

\* Faulty variant, for testing the sensitivity of the properties: the flush asks for statistics instead
process_pending_events_no_flush(c, ds) ==
    /\ Query(c, "process_pending_events", "get_comprehensive_stats", ds, None)
    /\ UNCHANGED stats_result

process_pending_events(c, ds) ==
    /\ Query(c, "process_pending_events", "process_pending_ingestion", ds, None)
    /\ UNCHANGED stats_result

\* ------------------------------------------------------------------ specification
QueryOutcomes == [raise_at : 0..1, ret : {None}]
WrapperOutcomes == [raise_at : 0..1, ret : {None}]

DoCallHandler ==
    \E c \in contexts : \E hook \in DOMAIN integration_hooks :
        \E data \in Payloads(integration_hooks[hook]) :
            \E ds \in Downstream(integration_hooks[hook], data) :
                CallHandler(c, hook, data, ds)
DoHandlerStore == \E c \in contexts : HandlerStore(c)
DoHostCall ==
    \E c \in contexts : \E method \in Methods :
        \E args \in Args(method) : \E out \in Outcomes(method) :
            HostCall(c, method, args, out)
DoLayerStep == \E c \in contexts : \E ds \in WrapperOutcomes : LayerStep(c, ds)
DoIntegrateMemoryManager == \E c \in contexts : integrate_memory_manager(c)
DoIntegrateToolExecutor == \E c \in contexts : integrate_tool_executor(c)
DoIntegrateResearchLoop == \E c \in contexts : integrate_research_loop(c)
DoIntegrateRlhfSystem == \E c \in contexts : integrate_rlhf_system(c)
DoIntegrateResearchAgent ==
    \E c \in contexts : \E research_agent \in ResearchAgents : \E created \in BOOLEAN :
        integrate_research_agent_with_semantic_graph(c, research_agent, created)
DoGetIntegrationStatistics ==
    \E c \in contexts : \E ds \in QueryOutcomes : get_integration_statistics(c, ds)
DoGetIntegrationHealth ==
    \E c \in contexts : \E ds \in QueryOutcomes : get_integration_health(c, ds)
DoProcessPendingEvents ==
    \E c \in contexts : \E ds \in QueryOutcomes : process_pending_events(c, ds)

Next ==
    \/ DoCallHandler
    \/ DoHandlerStore
    \/ DoHostCall
    \/ DoLayerStep
    \/ DoIntegrateMemoryManager
    \/ DoIntegrateToolExecutor
    \/ DoIntegrateResearchLoop
    \/ DoIntegrateRlhfSystem
    \/ DoIntegrateResearchAgent
    \/ DoGetIntegrationStatistics
    \/ DoGetIntegrationHealth
    \/ DoProcessPendingEvents
    \/ Observe

Spec == Init /\ [][Next]_vars

\* Several execution contexts of the host call the handlers at the same time
\* and read the statistics; the wiring was done before and is left alone.
NextConc ==
    \/ DoCallHandler
    \/ DoHandlerStore
    \/ DoGetIntegrationStatistics
    \/ DoGetIntegrationHealth
    \/ Observe

SpecConc == InitConc /\ [][NextConc]_vars

\* ------------------------------------------------------------------ reading a completed call
Indices(trace, ev) == {i \in 1..Len(trace) : trace[i].ev = ev}
DownstreamCalls(trace) == SelectSeq(trace, LAMBDA e : e.ev = "call")
DownstreamRaised(trace) == \E i \in Indices(trace, "call") : trace[i].raised
HandlerAt(trace, layer) == {i \in Indices(trace, "handler") : trace[i].layer = layer}
ReturnAt(trace, layer) == {i \in Indices(trace, "handler_return") : trace[i].layer = layer}
ExitAt(trace, layer) == {i \in Indices(trace, "wrapper_exit") : trace[i].layer = layer}

HandlerDone(handler) == last.op = "handler" /\ last.name = handler
HostDone(method) == last.op = "host" /\ last.name = method
QueryReturned(name) ==
    last.op = "query" /\ last.name = name /\ last.outcome.kind = "returned"

\* the counter the specification's table gives each event kind
DocumentedCounter(handler) ==
    CASE handler = "_handle_memory_output" -> "memory_writes"
      [] handler = "_handle_tool_usage" -> "tool_usage_logs"
      [] handler = "_handle_finding" -> "findings_captured"
      [] handler = "_handle_retrieval" -> "retrieval_calls"
      [] handler = "_handle_planning" -> "plan_generations"
      [] handler = "_handle_preference" -> "preference_logs"
      [] handler = "_handle_monitoring" -> "monitoring_events"

\* C1: whenever get_integration_statistics has just returned, after any
\* sequence of hook handlers, its total_integrations equals the sum of the
\* seven counters its integration_stats entry shows.
C1_TotalIsSumOfCounters ==
    QueryReturned("get_integration_statistics") =>
        last.outcome.val.total_integrations =
            SumOver(Deref(last.outcome.val.integration_stats), Counters)

\* C1 witness: statistics returned after handlers of two kinds succeeded and
\* the total is 2.
C1_Witness ==
    /\ QueryReturned("get_integration_statistics")
    /\ last.outcome.val.total_integrations = 2
    /\ Cardinality({k \in Counters : integration_stats[k] = 1}) = 2

\* the defaults of the specification's table, read off the requests a handler sent
DocumentedDefaults(handler, calls) ==
    LET a == calls[1].args
    IN CASE handler = "_handle_memory_output" ->
              /\ Len(calls) = 1 /\ calls[1].api = "ingest_event" /\ a.priority = 2
              /\ a.data.content = <<>> /\ a.data.importance = "0.5"
              /\ a.data.memory_type = "general" /\ a.data.session_id = "default"
              /\ "concepts" \notin DOMAIN a.data /\ "citations" \notin DOMAIN a.data
         [] handler = "_handle_tool_usage" ->
              /\ Len(calls) = 1 /\ calls[1].api = "ingest_event" /\ a.priority = 1
              /\ a.data.tool_name = "" /\ a.data.input = "" /\ a.data.output = ""
              /\ a.data.execution_time = 0 /\ a.data.success = TRUE
         [] handler = "_handle_finding" ->
              /\ Len(calls) = 1 /\ calls[1].api = "ingest_event" /\ a.priority = 2
              /\ a.data.finding = <<>> /\ a.data.analysis = <<>>
              /\ a.data.confidence = "0.5" /\ a.data.sources = <<>>
              /\ a.data.step_info = EmptyDict
         [] handler = "_handle_retrieval" ->
              /\ Len(calls) = 2 /\ calls[1].api = "enhanced_retrieval"
              /\ a.query = "" /\ a.query_embedding = None /\ a.strategy = "hybrid"
              /\ a.top_k = 10 /\ a.node_types = None
              /\ calls[2].api = "ingest_event" /\ calls[2].args.priority = 1
         [] handler = "_handle_planning" ->
              /\ Len(calls) = 2 /\ calls[1].api = "enhanced_planning"
              /\ a.research_question = "" /\ a.context = EmptyDict
              /\ a.strategy = "hybrid" /\ a.max_steps = 8
              /\ calls[2].api = "ingest_event" /\ calls[2].args.priority = 2
         [] handler = "_handle_preference" ->
              /\ Len(calls) = 1 /\ calls[1].api = "record_user_feedback"
              /\ a.user_id = "anonymous" /\ a.preferred_content = ""
              /\ a.rejected_content = "" /\ a.feedback_type = "quality"
              /\ a.confidence = "1.0" /\ a.context = ""
         [] handler = "_handle_monitoring" ->
              /\ Len(calls) = 2 /\ calls[1].api = "record_operation_time"
              /\ a.name = "unknown" /\ a.ms = 0
              /\ calls[2].api = "record_context_event"

\* C2: a handler of any of the seven kinds, called with an empty payload while
\* no downstream call raises, returns without an exception, adds exactly one
\* to its own counter and sends the documented default for every field.
C2_EmptyPayloadUsesDefaults ==
    (last.op = "handler" /\ last.arg = EmptyDict /\ ~DownstreamRaised(last.trace)) =>
        /\ last.outcome.kind = "returned"
        /\ integration_stats[DocumentedCounter(last.name)] =
               last.pre[DocumentedCounter(last.name)] + 1
        /\ DocumentedDefaults(last.name, DownstreamCalls(last.trace))

\* C2 witness: every handler has been called with an empty payload and has
\* counted it; here the planning handler, whose counter went from 0 to 1.
C2_Witness ==
    /\ HandlerDone("_handle_planning") /\ last.arg = EmptyDict
    /\ ~DownstreamRaised(last.trace)
    /\ last.pre["plan_generations"] = 0 /\ integration_stats["plan_generations"] = 1

\* C3: when a downstream call raises inside the MemoryWrite, ToolUsage,
\* Finding or Monitoring handler, the handler returns (it raises nothing), what
\* it returns is its error message carrying the error text, and its counter
\* is what it was before the call.
C3_ForwardingFailureIsolated ==
    (/\ last.op = "handler"
     /\ last.name \in {"_handle_memory_output", "_handle_tool_usage", "_handle_finding",
                       "_handle_monitoring"}
     /\ DownstreamRaised(last.trace)) =>
        /\ last.outcome.kind = "returned"
        /\ Len(last.outcome.val) = 2
        /\ last.outcome.val[1] \in {"Memory integration error: ",
                                    "Tool usage integration error: ",
                                    "Finding capture error: ",
                                    "Monitoring integration error: "}
        /\ last.outcome.val[2] = Str(BackendError)
        /\ integration_stats[DocumentedCounter(last.name)] =
               last.pre[DocumentedCounter(last.name)]

\* C3 witness: the monitoring handler's third downstream call raised after an
\* earlier monitoring event had been counted.
C3_Witness ==
    /\ HandlerDone("_handle_monitoring")
    /\ Len(DownstreamCalls(last.trace)) = 3 /\ DownstreamRaised(last.trace)
    /\ integration_stats["monitoring_events"] = 1

\* C4: a host method wrapped twice by the same integrate_* operation carries
\* one layer of instrumentation: one call of it invokes the handler once and
\* raises the kind's counter by one, not two.
C4_DoubleWrapOneLayer ==
    (/\ last.op = "host"
     /\ last.name \in {"save_research_finding", "invoke", "execute_research_step"}
     /\ last.nlayers >= 2) =>
        /\ Cardinality(Indices(last.trace, "handler")) <= 1
        /\ SumOver(integration_stats, Counters) - SumOver(last.pre, Counters) <= 1

\* C5: in an activation of enhanced_invoke whose original method raised, the
\* ToolUsage handler is invoked exactly once, with success false and the
\* text of the caught exception, it returns before the wrapper is left, the
\* wrapper is left by an exception, and the host's call of invoke does not
\* return a value.
C5_ToolFailureRecordedThenRaised ==
    (HostDone("invoke") /\ last.nlayers >= 1 /\ last.orig.kind = "raised") =>
        /\ last.outcome.kind = "raised"
        /\ \A layer \in 1..last.nlayers :
             /\ Cardinality(HandlerAt(last.trace, layer)) = 1
             /\ Cardinality(ReturnAt(last.trace, layer)) = 1
             /\ Cardinality(ExitAt(last.trace, layer)) = 1
             /\ \A h \in HandlerAt(last.trace, layer) :
                  \A r \in ReturnAt(last.trace, layer) :
                    \A x \in ExitAt(last.trace, layer) :
                        /\ last.trace[h].handler = "_handle_tool_usage"
                        /\ last.trace[h].data.success = FALSE
                        /\ last.trace[h].data.error = Str(last.orig.val)
                        /\ h < r /\ r < x
                        /\ last.trace[x].outcome.kind = "raised"

\* C5 witness: the tool raised under one wrapper, the handler counted the
\* failed use, and the call ended in an exception.
C5_Witness ==
    /\ HostDone("invoke") /\ last.nlayers = 1 /\ last.orig.kind = "raised"
    /\ last.outcome.kind = "raised"
    /\ integration_stats["tool_usage_logs"] = last.pre["tool_usage_logs"] + 1

\* C6: when the original invoke raises under the wrapper, the exception the
\* caller receives is the one the original method raised, of the same kind.
C6_OriginalExceptionUnchanged ==
    (HostDone("invoke") /\ last.nlayers >= 1 /\ last.orig.kind = "raised") =>
        last.outcome = last.orig

\* C7: a health report says idle as long as no handler has completed
\* successfully, and says active in every state after one has, whatever
\* failing or successful calls came in between.
C7_HealthIdleUntilFirstSuccess ==
    QueryReturned("get_integration_health") =>
        last.outcome.val.status =
            IF SumOver(forwarded, Counters) > 0 THEN "active" ELSE "idle"

\* C7 witness: exactly one handler call has completed successfully, whatever
\* calls were made besides it, and the health report that follows says active.
C7_Witness ==
    /\ QueryReturned("get_integration_health")
    /\ last.outcome.val.status = "active"
    /\ SumOver(forwarded, Counters) = 1

\* C8: every health report has status active or idle, and active exactly when
\* its total_events_processed is above 0.
C8_StatusIffProcessed ==
    QueryReturned("get_integration_health") =>
        /\ last.outcome.val.status \in {"active", "idle"}
        /\ (last.outcome.val.status = "active") <=>
               (last.outcome.val.total_events_processed > 0)

\* C8 witness: a health report with two events processed and status active.
C8_Witness ==
    /\ QueryReturned("get_integration_health")
    /\ last.outcome.val.total_events_processed = 2
    /\ last.outcome.val.status = "active"

\* C9: every counter is 0 at construction and no step of a sequence of hook
\* calls, wrapper calls, queries and flushes lowers one.
C9_CountersStartAtZeroAndNeverDecrease ==
    /\ \A k \in Counters : integration_stats[k] = 0
    /\ [][\A k \in Counters : integration_stats'[k] >= integration_stats[k]]_vars

\* C9 witness: a counter has risen twice, through a wrapper call, and a
\* flush has run since.
C9_Witness ==
    /\ integration_stats["tool_usage_logs"] = 2
    /\ layers["invoke"] >= 1
    /\ last.op = "query" /\ last.name = "process_pending_events"

\* C10: once the handlers that ran concurrently have all completed, each
\* counter has risen by the number of invocations whose forwarding succeeded.
C10_NoLostIncrement ==
    (\A c \in contexts : ctx[c].pc = "idle") =>
        \A k \in Counters : integration_stats[k] = forwarded[k]

\* the wrappers that call a handler only after the original method returned
SilentWrappers == {"save_research_finding", "execute_research_step",
                   "capture_research_output"}

\* C11: when the original method of a wrapped host call returns and a
\* downstream call made by the instrumentation raises, the host call returns
\* the original method's result and no exception reaches the caller.
C11_ForwardingFailureHiddenFromHost ==
    (/\ last.op = "host" /\ last.nlayers >= 1
     /\ last.orig.kind = "returned"
     /\ DownstreamRaised(last.trace)) =>
        last.outcome = last.orig

\* C12: a wrapped host call, under one layer or several, whose original
\* method returns, returns that very value, and the original method has run
\* exactly once.
C12_WrapperReturnsOriginalResult ==
    (last.op = "host" /\ last.nlayers >= 1 /\ last.orig.kind = "returned") =>
        /\ last.outcome.kind = "returned"
        /\ last.outcome.val = last.orig.val
        /\ Cardinality(Indices(last.trace, "original")) = 1

\* C13: when the original method raises under the memory-save, research-step
\* or RLHF-capture wrapper, no handler and no downstream call is invoked,
\* every counter keeps its value, and the caller receives the exception.
C13_SilentWrapperSkipsOnFailure ==
    (/\ last.op = "host" /\ last.name \in SilentWrappers
     /\ last.nlayers >= 1 /\ last.orig.kind = "raised") =>
        /\ Indices(last.trace, "handler") = {}
        /\ Indices(last.trace, "call") = {}
        /\ integration_stats = last.pre
        /\ last.outcome = last.orig

\* C13 witness: a memory save was counted, then the original save raised under
\* the wrapper and the exception reached the caller.
C13_Witness ==
    /\ HostDone("save_research_finding") /\ last.nlayers >= 1
    /\ last.orig.kind = "raised" /\ last.outcome.kind = "raised"
    /\ last.pre["memory_writes"] = 1 /\ integration_stats["memory_writes"] = 1

\* C14: the ToolUsage handler adds one to tool_usage_logs exactly when its
\* forwarding call does not raise, whatever the payload's success flag is; a
\* use reported with success false is counted.
C14_FailedToolUseCounted ==
    HandlerDone("_handle_tool_usage") =>
        /\ ~DownstreamRaised(last.trace) =>
               integration_stats["tool_usage_logs"] = last.pre["tool_usage_logs"] + 1
        /\ DownstreamRaised(last.trace) =>
               integration_stats["tool_usage_logs"] = last.pre["tool_usage_logs"]

\* C14 witness: a tool use with success false was forwarded and counted.
C14_Witness ==
    /\ HandlerDone("_handle_tool_usage")
    /\ Get(last.arg, "success", TRUE) = FALSE
    /\ ~DownstreamRaised(last.trace)
    /\ integration_stats["tool_usage_logs"] = last.pre["tool_usage_logs"] + 1

\* C15: the dict last returned by get_integration_statistics keeps the
\* counters it was returned with: after any later hook calls its
\* integration_stats entry still sums to its total_integrations.
C15_StatisticsAreSnapshot ==
    stats_result # NoResult =>
        stats_result.total_integrations =
            SumOver(Deref(stats_result.integration_stats), Counters)

\* C16: after integrate_research_agent_with_semantic_graph has raised, no
\* method of the host is wrapped.
C16_FailedWiringLeavesHostBare ==
    (last.op = "wire" /\ last.outcome.kind = "raised") =>
        \A m \in Methods : layers[m] = 0

\* the error-shaped result of a request/response handler
ErrorShape(handler) ==
    CASE handler = "_handle_retrieval" -> [error |-> Str(BackendError), results |-> <<>>]
      [] handler = "_handle_planning" -> [error |-> Str(BackendError), plan_steps |-> <<>>]
      [] handler = "_handle_preference" -> <<"Preference logging error: ", Str(BackendError)>>

\* C17: when a downstream call raises inside the Retrieval, Planning or
\* Preference handler, the handler returns (it raises nothing), what it
\* returns is its error shape, and its counter is what it was before.
C17_RequestFailureIsolated ==
    (/\ last.op = "handler"
     /\ last.name \in {"_handle_retrieval", "_handle_planning", "_handle_preference"}
     /\ DownstreamRaised(last.trace)) =>
        /\ last.outcome.kind = "returned"
        /\ last.outcome.val = ErrorShape(last.name)
        /\ integration_stats[DocumentedCounter(last.name)] =
               last.pre[DocumentedCounter(last.name)]

\* C17 witness: the retrieval request returned, the log ingest that follows
\* raised, and the handler returned its error shape without counting.
C17_Witness ==
    /\ HandlerDone("_handle_retrieval")
    /\ Len(DownstreamCalls(last.trace)) = 2 /\ DownstreamRaised(last.trace)
    /\ last.outcome.val = ErrorShape("_handle_retrieval")
    /\ integration_stats["retrieval_calls"] = last.pre["retrieval_calls"]

\* the request of a Retrieval or Planning handler call returned a result
RequestReturned ==
    /\ last.op = "handler" /\ last.name \in {"_handle_retrieval", "_handle_planning"}
    /\ DownstreamCalls(last.trace) # <<>>
    /\ ~DownstreamCalls(last.trace)[1].raised

\* C18 as stated: whenever the enhanced-retrieval (enhanced-planning) request
\* returns a result, the handler returns that result.
C18_ResultPassedThrough ==
    RequestReturned =>
        /\ last.outcome.kind = "returned"
        /\ last.outcome.val = DownstreamCalls(last.trace)[1].ret

\* C18, amended: whenever the request returns a result and the log ingest
\* that follows it does not raise, the handler returns that result.
C18_ResultPassedThroughWhenLogged ==
    (RequestReturned /\ ~DownstreamRaised(last.trace)) =>
        /\ last.outcome.kind = "returned"
        /\ last.outcome.val = DownstreamCalls(last.trace)[1].ret

\* C18 witness: the planning request returned a plan of two steps, the log
\* ingest went through, and the handler returned that plan.
C18_Witness ==
    /\ HandlerDone("_handle_planning") /\ ~DownstreamRaised(last.trace)
    /\ Len(DownstreamCalls(last.trace)) = 2
    /\ Len(last.outcome.val.plan_steps) = 2
    /\ last.outcome.val = DownstreamCalls(last.trace)[1].ret

\* all the downstream calls of the completed handler call were made and returned
ForwardingSucceeded ==
    DownstreamCalls(last.trace) # <<>> /\ ~DownstreamRaised(last.trace)

\* C19: a handler call, with any payload, adds 1 to its own kind's counter
\* when its forwarding succeeded and 0 otherwise, and leaves the six other
\* counters and the hook registry as they were.
C19_HandlerTouchesOwnCounterOnly ==
    last.op = "handler" =>
        LET own == DocumentedCounter(last.name)
        IN /\ integration_stats[own] =
                  last.pre[own] + (IF ForwardingSucceeded THEN 1 ELSE 0)
           /\ \A k \in Counters \ {own} : integration_stats[k] = last.pre[k]
           /\ integration_hooks = _register_integration_hooks

\* C19 witness: a MemoryWrite with content of 120 characters and importance
\* 0.8 was forwarded; memory_writes rose by one and the acknowledgment says 120.
C19_Witness ==
    /\ HandlerDone("_handle_memory_output") /\ ForwardingSucceeded
    /\ Get(last.arg, "importance", "") = "0.8"
    /\ Len(Get(last.arg, "content", <<>>)) = 120
    /\ last.outcome.val[2] = 120
    /\ integration_stats["memory_writes"] = last.pre["memory_writes"] + 1

\* C20: in a completed call of a host method wrapped with a handler, the
\* original method runs first; every counter increment of a layer comes after
\* that layer's handler was entered and made at least one downstream call,
\* none of which raised, and before that layer's wrapper is left; the
\* counters rose by exactly the number of such increments; and the call ends
\* with the outermost wrapper being left.
C20_ForwardThenCountThenReturn ==
    (/\ last.op = "host" /\ last.nlayers >= 1
     /\ last.name \in {"save_research_finding", "invoke", "execute_research_step"}) =>
        /\ Indices(last.trace, "original") = {1}
        /\ last.trace[Len(last.trace)].ev = "wrapper_exit"
        /\ SumOver(integration_stats, Counters) - SumOver(last.pre, Counters) =
               Cardinality(Indices(last.trace, "incr"))
        /\ \A i \in Indices(last.trace, "incr") :
             \E h \in HandlerAt(last.trace, last.trace[i].layer) :
                /\ 1 < h /\ h < i
                /\ \E j \in Indices(last.trace, "call") : h < j /\ j < i
                /\ \A j \in Indices(last.trace, "call") :
                      (h < j /\ j < i) => ~last.trace[j].raised
                /\ \A x \in ExitAt(last.trace, last.trace[i].layer) : i < x
                /\ ExitAt(last.trace, last.trace[i].layer) # {}

\* C20 witness: a wrapped memory save whose forwarding went through: the
\* original ran, the event was forwarded, memory_writes rose by one and the
\* original's value came back.
C20_Witness ==
    /\ HostDone("save_research_finding") /\ last.nlayers = 1
    /\ last.orig.kind = "returned" /\ last.outcome = last.orig
    /\ Cardinality(Indices(last.trace, "incr")) = 1
    /\ integration_stats["memory_writes"] = last.pre["memory_writes"] + 1

\* C21: in one handler invocation every downstream operation is called at
\* most once, whether it returns or raises, and a call that raises is the
\* last downstream call of the invocation.
C21_NoRetry ==
    last.op = "handler" =>
        LET calls == DownstreamCalls(last.trace)
        IN /\ \A i, j \in 1..Len(calls) : calls[i].api = calls[j].api => i = j
           /\ \A i \in 1..Len(calls) : calls[i].raised => i = Len(calls)

\* C21 witness: the retrieval handler's log ingest raised; the handler had
\* made two calls and made no third.
C21_Witness ==
    /\ HandlerDone("_handle_retrieval")
    /\ Len(DownstreamCalls(last.trace)) = 2
    /\ DownstreamCalls(last.trace)[2].raised

\* the downstream operations of a monitoring event, in the order of the code
MonitoringSteps(success) ==
    IF success THEN <<"record_operation_time", "record_context_event">>
    ELSE <<"record_operation_time", "record_error", "record_context_event">>

\* C22: the Monitoring handler calls record_operation_time first, then
\* record_error exactly when the payload's success is false, then the
\* context-log event, stopping only at a call that raises; monitoring_events
\* rises by one exactly when none of the calls it made raised.
C22_MonitoringOrder ==
    HandlerDone("_handle_monitoring") =>
        LET calls == DownstreamCalls(last.trace)
            steps == MonitoringSteps(Get(last.arg, "success", TRUE))
        IN /\ Len(calls) >= 1 /\ Len(calls) <= Len(steps)
           /\ \A i \in 1..Len(calls) : calls[i].api = steps[i]
           /\ Len(calls) < Len(steps) => calls[Len(calls)].raised
           /\ integration_stats["monitoring_events"] =
                  last.pre["monitoring_events"] +
                      (IF DownstreamRaised(last.trace) THEN 0 ELSE 1)

\* C22 witness: a monitoring event with success false made its three calls,
\* record_error second, and was counted.
C22_Witness ==
    /\ HandlerDone("_handle_monitoring") /\ ~DownstreamRaised(last.trace)
    /\ Get(last.arg, "success", TRUE) = FALSE
    /\ Len(DownstreamCalls(last.trace)) = 3
    /\ DownstreamCalls(last.trace)[2].api = "record_error"
    /\ integration_stats["monitoring_events"] = last.pre["monitoring_events"] + 1

\* C23: get_integration_statistics, get_integration_health and
\* process_pending_events, returning or raising, leave the seven counters and
\* the hook registry as they found them.
C23_QueriesOffWritePath ==
    last.op = "query" =>
        /\ integration_stats = last.pre
        /\ integration_hooks = _register_integration_hooks

\* C23 witness: a flush ran after two events had been counted and the
\* counters still show two.
C23_Witness ==
    /\ last.op = "query" /\ last.name = "process_pending_events"
    /\ last.outcome.kind = "returned"
    /\ SumOver(integration_stats, Counters) = 2

\* the flush requests issued during the completed call
Flushes == {i \in Indices(last.trace, "call") : last.trace[i].api = "process_pending_ingestion"}

\* C24: a call of process_pending_events issues exactly one flush request,
\* and no handler, wrapper, wiring operation or query issues any.
C24_OnlyFlushFlushes ==
    last # NoCall =>
        Cardinality(Flushes) =
            IF last.op = "query" /\ last.name = "process_pending_events" THEN 1 ELSE 0

\* C24 witness: process_pending_events has run with events counted before it
\* and issued its one flush request.
C24_Witness ==
    /\ last.op = "query" /\ last.name = "process_pending_events"
    /\ Cardinality(Flushes) = 1
    /\ SumOver(integration_stats, Counters) >= 1

\* C25: in every state the hook registry is the seven entries made at
\* construction, one per handler, and the statistics and the health report
\* taken in that state both give 7 for it.
C25_SevenHooks ==
    /\ integration_hooks = _register_integration_hooks
    /\ Cardinality(DOMAIN integration_hooks) = 7
    /\ Cardinality({integration_hooks[h] : h \in DOMAIN integration_hooks}) = 7
    /\ get_integration_statistics_result.hooks_registered = 7
    /\ get_integration_health_result.integration_points_active = 7
    /\ QueryReturned("get_integration_statistics") => last.outcome.val.hooks_registered = 7
    /\ QueryReturned("get_integration_health") =>
           last.outcome.val.integration_points_active = 7

\* C25 witness: statistics returned with hooks_registered 7 on an instance
\* whose methods are wrapped and that has counted an event.
C25_Witness ==
    /\ QueryReturned("get_integration_statistics")
    /\ last.outcome.val.hooks_registered = 7
    /\ SumValues(layers) >= 1
    /\ SumOver(integration_stats, Counters) >= 1

\* the downstream calls of the completed call that raised
RaisedCalls == {i \in Indices(last.trace, "call") : last.trace[i].raised}

\* C26: each handler invocation that completes without a downstream call
\* raising adds exactly one to the sum of the counters, and each invocation in
\* which a downstream call raised adds nothing; so in a sequential execution
\* the sum is the number of invocations completed without such a failure.
C26_TotalCountsCleanInvocations ==
    /\ last.op = "handler" =>
           SumOver(integration_stats, Counters) =
               SumOver(last.pre, Counters) + (IF DownstreamRaised(last.trace) THEN 0 ELSE 1)
    /\ (last.op = "host" /\ last.name # "capture_research_output") =>
           SumOver(integration_stats, Counters) =
               SumOver(last.pre, Counters) +
                   Cardinality(Indices(last.trace, "handler")) - Cardinality(RaisedCalls)

\* C27: each activation of enhanced_execute_step whose original returned
\* invokes the Finding handler exactly once, with the last element of the
\* returned state's findings, when findings is present and non-empty, also
\* when the findings are those the step was given, and does not invoke it
\* when findings is absent or empty.
C27_LatestFindingCaptured ==
    (HostDone("execute_research_step") /\ last.nlayers >= 1
     /\ last.orig.kind = "returned") =>
        LET findings == Get(last.orig.val, "findings", <<>>)
        IN \A layer \in 1..last.nlayers :
             IF findings = <<>>
             THEN HandlerAt(last.trace, layer) = {}
             ELSE /\ Cardinality(HandlerAt(last.trace, layer)) = 1
                  /\ \A h \in HandlerAt(last.trace, layer) :
                       LET latest == findings[Len(findings)]
                           data == last.trace[h].data
                       IN /\ last.trace[h].handler = "_handle_finding"
                          /\ data.finding = Get(latest, "analysis", <<>>)
                          /\ data.analysis = Get(latest, "analysis", <<>>)
                          /\ data.step_info.step_number = Get(latest, "step", 0)
                          /\ data.sources = Get(latest, "external_research", <<>>)

\* C27 witness: the step returned the two findings it was given, adding none,
\* and the second of them was captured and counted.
C27_Witness ==
    /\ HostDone("execute_research_step") /\ last.nlayers = 1
    /\ last.orig.kind = "returned"
    /\ Get(last.orig.val, "findings", <<>>) = <<Finding1, Finding2>>
    /\ last.arg.findings = <<Finding1, Finding2>>
    /\ Cardinality(HandlerAt(last.trace, 1)) = 1
    /\ integration_stats["findings_captured"] = last.pre["findings_captured"] + 1

\* C28: when the original invoke raised under the wrapper and the forwarding
\* of the ToolUsage event raised as well, the caller receives an exception
\* that carries the tool's error, not the forwarding error, and
\* tool_usage_logs is what it was before the call.
C28_ToolFailureSurvivesForwardingFailure ==
    (/\ HostDone("invoke") /\ last.nlayers >= 1 /\ last.orig.kind = "raised"
     /\ Indices(last.trace, "call") # {}
     /\ RaisedCalls = Indices(last.trace, "call")) =>
        /\ last.outcome.kind = "raised"
        /\ Str(last.outcome.val) = Str(last.orig.val)
        /\ last.outcome.val # BackendError
        /\ integration_stats["tool_usage_logs"] = last.pre["tool_usage_logs"]

\* C28 witness: the tool raised, the ingest of the failed use raised too, and
\* the caller got an exception with the tool's error text.
C28_Witness ==
    /\ HostDone("invoke") /\ last.nlayers = 1 /\ last.orig.kind = "raised"
    /\ Cardinality(RaisedCalls) = 1
    /\ last.outcome.kind = "raised" /\ Str(last.outcome.val) = "boom"
    /\ integration_stats["tool_usage_logs"] = last.pre["tool_usage_logs"]

\* C29: the health report of every state has integration_errors 0, the
\* states reached through forwarding failures included, and so has every
\* health report that was returned.
C29_IntegrationErrorsZero ==
    /\ get_integration_health_result.integration_errors = 0
    /\ QueryReturned("get_integration_health") => last.outcome.val.integration_errors = 0

\* C29 witness: a handler's forwarding has just failed after another event
\* was counted, and the health report of that state has integration_errors 0.
C29_Witness ==
    /\ last.op = "handler" /\ DownstreamRaised(last.trace)
    /\ SumOver(integration_stats, Counters) = 1
    /\ get_integration_health_result.integration_errors = 0
    /\ get_integration_health_result.status = "active"

====
